---- MODULE Spec2Model ----
(***************************************************************************)
(* Song library: HTTP handlers -> SongService -> SongRepository (one      *)
(* PostgreSQL table "songs") with an external metadata lookup on create.  *)
(* Strings whose content the program inspects (group, song, text, path    *)
(* and query parameters) are sequences of one-character strings.          *)
(***************************************************************************)
EXTENDS Integers, Sequences, FiniteSets, TLC

VARIABLES songs, seq, now, resp, inflight

vars == <<songs, seq, now, resp, inflight>>

----------------------------------------------------------------------------
(* Bounds of the model *)

\* largest value the songs_id_seq sequence may reach
MaxId == 2
\* largest reading of the wall clock
MaxClock == 1
\* number of row slots of the tables the query specification starts from
MaxRows == 3
\* largest page number and largest page size a direct service call asks for
MaxPage == 4
MaxPageSize == 3
NumRequests == 2

----------------------------------------------------------------------------
(* Program constants *)

StatusOK == 200
StatusCreated == 201
StatusBadRequest == 400
StatusNotFound == 404
StatusInternalServerError == 500
DefaultSongsPageSize == 10
DefaultVersesPageSize == 5

----------------------------------------------------------------------------
(* Characters and strings *)

NL == "\n"
Digits == {"0", "1", "2", "3", "4", "5", "6", "7", "8", "9"}

DigitVal(c) ==
  CASE c = "0" -> 0 [] c = "1" -> 1 [] c = "2" -> 2 [] c = "3" -> 3
    [] c = "4" -> 4 [] c = "5" -> 5 [] c = "6" -> 6 [] c = "7" -> 7
    [] c = "8" -> 8 [] c = "9" -> 9

\* PostgreSQL lower() on the letters of the model's alphabet
LowerChar(c) ==
  CASE c = "A" -> "a" [] c = "B" -> "b" [] c = "C" -> "c" [] OTHER -> c

Lower(s) == [i \in 1..Len(s) |-> LowerChar(s[i])]

Tail2(s, k) == SubSeq(s, k + 1, Len(s))

HasPrefixAt(s, sep, i) ==
  /\ i + Len(sep) - 1 <= Len(s)
  /\ SubSeq(s, i, i + Len(sep) - 1) = sep

\* strings.Split(s, sep) for a non-empty sep: cut at every non-overlapping
\* occurrence of sep, scanning from the left; n occurrences give n+1 pieces
RECURSIVE SplitAcc(_, _, _, _)
SplitAcc(s, sep, i, cur) ==
  IF i > Len(s) THEN <<cur>>
  ELSE IF HasPrefixAt(s, sep, i)
       THEN <<cur>> \o SplitAcc(s, sep, i + Len(sep), <<>>)
       ELSE SplitAcc(s, sep, i + 1, Append(cur, s[i]))

\* a split that drops the empty pieces
SplitNonEmpty(s, sep) ==
  SelectSeq(SplitAcc(s, sep, 1, <<>>), LAMBDA piece : piece # <<>>)

Split(s, sep) == SplitAcc(s, sep, 1, <<>>)

\* SQL LIKE: % matches any run of characters, _ any one character, and a
\* backslash makes the next pattern character literal
RECURSIVE Like(_, _)
Like(s, p) ==
  IF p = <<>> THEN s = <<>>
  ELSE IF p[1] = "%"
       THEN \E k \in 0..Len(s) : Like(Tail2(s, k), Tail(p))
  ELSE IF p[1] = "_"
       THEN s # <<>> /\ Like(Tail(s), Tail(p))
  ELSE IF p[1] = "\\"
       THEN /\ Len(p) >= 2
            /\ s # <<>>
            /\ s[1] = p[2]
            /\ Like(Tail(s), Tail2(p, 2))
  ELSE s # <<>> /\ s[1] = p[1] /\ Like(Tail(s), Tail(p))

\* s ILIKE p
ILike(s, p) == Like(Lower(s), Lower(p))

\* strconv.ParseInt(s, 10, 64) and strconv.Atoi(s), for strings of at most
\* 9 characters (which never leave the 64-bit range): an optional sign and
\* then one or more decimal digits
RECURSIVE DigitsValue(_, _)
DigitsValue(s, acc) ==
  IF s = <<>> THEN acc ELSE DigitsValue(Tail(s), acc * 10 + DigitVal(s[1]))

\* a lenient parse that stops at the first character that is no digit
ParseIntPrefix(s) ==
  LET n == Cardinality({i \in 1..Len(s) : \A j \in 1..i : s[j] \in Digits})
  IN  IF n = 0
      THEN [ok |-> FALSE, val |-> 0]
      ELSE [ok |-> TRUE, val |-> DigitsValue(SubSeq(s, 1, n), 0)]

ParseInt(s) ==
  LET signed == s # <<>> /\ s[1] \in {"+", "-"}
      body   == IF signed THEN Tail(s) ELSE s
  IN  IF body = <<>> \/ (\E i \in 1..Len(body) : body[i] \notin Digits)
      THEN [ok |-> FALSE, val |-> 0]
      ELSE [ok |-> TRUE,
            val |-> IF signed /\ s[1] = "-"
                    THEN 0 - DigitsValue(body, 0)
                    ELSE DigitsValue(body, 0)]

Atoi(s) == ParseInt(s)

----------------------------------------------------------------------------
(* Errors: the chain of fmt.Errorf("...: %w") contexts around a cause *)

NoErr == [ctx |-> <<>>, cause |-> "nil"]

Err(cause) == [ctx |-> <<>>, cause |-> cause]

\* fmt.Errorf(prefix + ": %v", e): the text is kept, the cause is not
WrapNoChain(prefix, e) == [ctx |-> <<prefix>> \o e.ctx, cause |-> "opaque"]

\* fmt.Errorf(prefix + ": %w", e)
Wrap(prefix, e) == [ctx |-> <<prefix>> \o e.ctx, cause |-> e.cause]

IsErr(e) == e.cause # "nil"

----------------------------------------------------------------------------
(* model.Song, model.SongDetail *)

NoSong ==
  [ID |-> 0, Group |-> <<>>, Song |-> <<>>, ReleaseDate |-> "", Text |-> <<>>,
   Link |-> "", CreatedAt |-> 0, UpdatedAt |-> 0]

NoDetail == [ReleaseDate |-> "", Text |-> <<>>, Link |-> ""]

----------------------------------------------------------------------------
(* The songs table: migration "CREATE TABLE IF NOT EXISTS songs" *)

\* a table created without the unique constraint
NoUniqueConstraint(tbl, id, group, song) == FALSE

\* CONSTRAINT unique_group_song UNIQUE (group_name, song_name): would a row
\* with this id holding (group, song) collide with another row of tbl
UniqueViolation(tbl, id, group, song) ==
  \E r \in tbl : r.ID # id /\ r.Group = group /\ r.Song = song

\* id SERIAL PRIMARY KEY: nextval of the sequence; a value is consumed by
\* every INSERT the server executes, also one the constraint then rejects
NextVal(sq) == sq + 1

Min(a, b) == IF a <= b THEN a ELSE b

\* ORDER BY id (ascending)
RECURSIVE OrderByIdAsc(_)
OrderByIdAsc(S) ==
  IF S = {} THEN <<>>
  ELSE LET m == CHOOSE r \in S : \A q \in S : q.ID >= r.ID
       IN  <<m>> \o OrderByIdAsc(S \ {m})

\* ORDER BY id DESC
RECURSIVE OrderByIdDesc(_)
OrderByIdDesc(S) ==
  IF S = {} THEN <<>>
  ELSE LET m == CHOOSE r \in S : \A q \in S : q.ID <= r.ID
       IN  <<m>> \o OrderByIdDesc(S \ {m})

\* LIMIT limit OFFSET offset over an ordered result
LimitOffset(rows, limit, offset) ==
  SubSeq(rows, offset + 1, Min(offset + limit, Len(rows)))

----------------------------------------------------------------------------
(* SongRepository (PostgreSQL).  dbOk = FALSE is a statement the database  *)
(* could not execute (connection lost, request context cancelled).         *)

\* an insert that, on a taken pair, overwrites the stored row and returns its
\* id (ON CONFLICT ... DO UPDATE)
RepoCreateSongUpsert(tbl, sq, song, t, dbOk) ==
  IF ~dbOk
  THEN [songs |-> tbl, seq |-> sq, id |-> 0,
        err |-> Wrap("create song", Err("db_failure"))]
  ELSE IF UniqueViolation(tbl, NextVal(sq), song.Group, song.Song)
  THEN LET old == CHOOSE r \in tbl :
                    r.Group = song.Group /\ r.Song = song.Song
       IN  [songs |-> (tbl \ {old})
                        \cup {[song EXCEPT !.ID = old.ID,
                                           !.CreatedAt = old.CreatedAt,
                                           !.UpdatedAt = t]},
            seq |-> NextVal(sq), id |-> old.ID, err |-> NoErr]
  ELSE [songs |-> tbl \cup {[song EXCEPT !.ID = NextVal(sq),
                                         !.CreatedAt = t,
                                         !.UpdatedAt = t]},
        seq |-> NextVal(sq), id |-> NextVal(sq), err |-> NoErr]

RepoCreateSong(tbl, sq, song, t, dbOk) ==
  IF ~dbOk
  THEN [songs |-> tbl, seq |-> sq, id |-> 0,
        err |-> Wrap("create song", Err("db_failure"))]
  ELSE IF UniqueViolation(tbl, NextVal(sq), song.Group, song.Song)
  THEN [songs |-> tbl, seq |-> NextVal(sq), id |-> 0,
        err |-> Wrap("create song", Err("unique_violation"))]
  ELSE [songs |-> tbl \cup {[song EXCEPT !.ID = NextVal(sq),
                                         !.CreatedAt = t,
                                         !.UpdatedAt = t]},
        seq |-> NextVal(sq), id |-> NextVal(sq), err |-> NoErr]

\* WHERE 1=1 [AND group_name ILIKE %g%] [AND song_name ILIKE %s%]
FilterMatches(r, filter) ==
  /\ filter.Group # <<>> => ILike(r.Group, <<"%">> \o filter.Group \o <<"%">>)
  /\ filter.SongName # <<>> =>
       ILike(r.Song, <<"%">> \o filter.SongName \o <<"%">>)

RepoGetSongs(tbl, filter, dbOk) ==
  LET offset == (filter.Page - 1) * filter.PageSize
  IN  IF ~dbOk \/ filter.PageSize < 0 \/ offset < 0
      THEN [songs |-> <<>>, err |-> Wrap("list songs", Err("db_failure"))]
      ELSE [songs |-> LimitOffset(
                        OrderByIdDesc({r \in tbl : FilterMatches(r, filter)}),
                        filter.PageSize, offset),
            err |-> NoErr]

\* found = FALSE with no error is the (nil, nil) return
RepoGetSongByID(tbl, id, dbOk) ==
  IF ~dbOk
  THEN [found |-> FALSE, song |-> NoSong,
        err |-> Wrap("get song", Err("db_failure"))]
  ELSE IF \E r \in tbl : r.ID = id
  THEN [found |-> TRUE, song |-> CHOOSE r \in tbl : r.ID = id, err |-> NoErr]
  ELSE [found |-> FALSE, song |-> NoSong, err |-> NoErr]

\* the row an UPDATE writes: every mutable column and updated_at
UpdatedRow(r, song, t) ==
  [r EXCEPT !.Group = song.Group,
            !.Song = song.Song,
            !.ReleaseDate = song.ReleaseDate,
            !.Text = song.Text,
            !.Link = song.Link,
            !.UpdatedAt = t]

\* an update whose SET list leaves out link
RepoUpdateSongKeepingLink(tbl, song, t, dbOk) ==
  IF ~dbOk
  THEN [songs |-> tbl, err |-> Wrap("update song", Err("db_failure"))]
  ELSE IF ~(\E r \in tbl : r.ID = song.ID)
  THEN [songs |-> tbl, err |-> Err("not_found")]
  ELSE IF UniqueViolation(tbl, song.ID, song.Group, song.Song)
  THEN [songs |-> tbl, err |-> Wrap("update song", Err("unique_violation"))]
  ELSE [songs |-> {IF r.ID = song.ID
                   THEN [UpdatedRow(r, song, t) EXCEPT !.Link = r.Link]
                   ELSE r : r \in tbl},
        err |-> NoErr]

\* an update that refreshes updated_at of the target before the constraint
\* rejects the new pair
RepoUpdateSongStampingFirst(tbl, song, t, dbOk) ==
  IF ~dbOk
  THEN [songs |-> tbl, err |-> Wrap("update song", Err("db_failure"))]
  ELSE IF ~(\E r \in tbl : r.ID = song.ID)
  THEN [songs |-> tbl, err |-> Err("not_found")]
  ELSE IF UniqueViolation(tbl, song.ID, song.Group, song.Song)
  THEN [songs |-> {IF r.ID = song.ID THEN [r EXCEPT !.UpdatedAt = t] ELSE r :
                     r \in tbl},
        err |-> Wrap("update song", Err("unique_violation"))]
  ELSE [songs |-> {IF r.ID = song.ID THEN UpdatedRow(r, song, t) ELSE r :
                     r \in tbl},
        err |-> NoErr]

RepoUpdateSong(tbl, song, t, dbOk) ==
  IF ~dbOk
  THEN [songs |-> tbl, err |-> Wrap("update song", Err("db_failure"))]
  ELSE IF ~(\E r \in tbl : r.ID = song.ID)
  THEN [songs |-> tbl, err |-> Err("not_found")]
  ELSE IF UniqueViolation(tbl, song.ID, song.Group, song.Song)
  THEN [songs |-> tbl, err |-> Wrap("update song", Err("unique_violation"))]
  ELSE [songs |-> {IF r.ID = song.ID THEN UpdatedRow(r, song, t) ELSE r :
                     r \in tbl},
        err |-> NoErr]

\* a delete that does not look at RowsAffected
RepoDeleteSongUnchecked(tbl, id, dbOk) ==
  IF ~dbOk
  THEN [songs |-> tbl, err |-> Wrap("delete song", Err("db_failure"))]
  ELSE [songs |-> {r \in tbl : r.ID # id}, err |-> NoErr]

RepoDeleteSong(tbl, id, dbOk) ==
  IF ~dbOk
  THEN [songs |-> tbl, err |-> Wrap("delete song", Err("db_failure"))]
  ELSE IF ~(\E r \in tbl : r.ID = id)
  THEN [songs |-> tbl, err |-> Err("not_found")]
  ELSE [songs |-> {r \in tbl : r.ID # id}, err |-> NoErr]

\* a page that starts one page late: start = page * pageSize
RepoGetSongVersesLate(tbl, id, pagination, dbOk) ==
  LET got == RepoGetSongByID(tbl, id, dbOk)
      verses == Split(got.song.Text, <<NL, NL>>)
      start == pagination.Page * pagination.PageSize
      end == start + pagination.PageSize
      end2 == IF end > Len(verses) THEN Len(verses) ELSE end
  IN  IF IsErr(got.err) THEN [verses |-> <<>>, err |-> got.err]
      ELSE IF ~got.found THEN [verses |-> <<>>, err |-> Err("not_found")]
      ELSE IF start >= Len(verses) THEN [verses |-> <<>>, err |-> NoErr]
      ELSE [verses |-> SubSeq(verses, start + 1, end2), err |-> NoErr]

\* pages that overlap: start = (page-1) * (pageSize-1)
RepoGetSongVersesOverlapping(tbl, id, pagination, dbOk) ==
  LET got == RepoGetSongByID(tbl, id, dbOk)
      verses == Split(got.song.Text, <<NL, NL>>)
      start == (pagination.Page - 1) * (pagination.PageSize - 1)
      end == start + pagination.PageSize
      end2 == IF end > Len(verses) THEN Len(verses) ELSE end
  IN  IF IsErr(got.err) THEN [verses |-> <<>>, err |-> got.err]
      ELSE IF ~got.found THEN [verses |-> <<>>, err |-> Err("not_found")]
      ELSE IF start >= Len(verses) THEN [verses |-> <<>>, err |-> NoErr]
      ELSE [verses |-> SubSeq(verses, start + 1, end2), err |-> NoErr]

\* verses[start:end]; a slice bound out of range panics
RepoGetSongVerses(tbl, id, pagination, dbOk) ==
  LET got == RepoGetSongByID(tbl, id, dbOk)
      verses == Split(got.song.Text, <<NL, NL>>)
      start == (pagination.Page - 1) * pagination.PageSize
      end == start + pagination.PageSize
      end2 == IF end > Len(verses) THEN Len(verses) ELSE end
  IN  IF IsErr(got.err) THEN [verses |-> <<>>, err |-> got.err]
      ELSE IF ~got.found THEN [verses |-> <<>>, err |-> Err("not_found")]
      ELSE IF start >= Len(verses) THEN [verses |-> <<>>, err |-> NoErr]
      ELSE IF start < 0 \/ end2 < start
           THEN [verses |-> <<>>, err |-> Err("panic")]
      ELSE [verses |-> SubSeq(verses, start + 1, end2), err |-> NoErr]

----------------------------------------------------------------------------
(* ExternalAPIClient.GetSongDetails: one GET; lookup is what the upstream  *)
(* does with it                                                           *)

GetSongDetails(lookup) ==
  CASE lookup.kind = "do_error" ->
         [detail |-> NoDetail, err |-> Wrap("do request", Err("upstream"))]
    [] lookup.kind = "bad_status" ->
         [detail |-> NoDetail, err |-> Err("upstream")]
    [] lookup.kind = "decode_error" ->
         [detail |-> NoDetail, err |-> Wrap("decode response", Err("upstream"))]
    [] OTHER -> [detail |-> lookup.detail, err |-> NoErr]

----------------------------------------------------------------------------
(* SongService.  calls lists the collaborators invoked, in order.          *)

\* a create that goes on to the repository after a failed lookup
SvcCreateSongIgnoringLookup(tbl, sq, input, lookup, t, dbOk) ==
  LET got == GetSongDetails(lookup)
      song == [NoSong EXCEPT !.Group = input.Group,
                             !.Song = input.Song,
                             !.ReleaseDate = got.detail.ReleaseDate,
                             !.Text = got.detail.Text,
                             !.Link = got.detail.Link]
      made == RepoCreateSong(tbl, sq, song, t, dbOk)
  IN  [songs |-> made.songs, seq |-> made.seq, id |-> made.id,
       err |-> IF IsErr(got.err) THEN Wrap("get song data", got.err)
               ELSE IF IsErr(made.err) THEN Wrap("create song", made.err)
               ELSE NoErr,
       calls |-> <<"apiClient.GetSongDetails", "repo.CreateSong">>]

\* a create that leaves the text out of the record
SvcCreateSongTextLost(tbl, sq, input, lookup, t, dbOk) ==
  LET got == GetSongDetails(lookup)
      song == [NoSong EXCEPT !.Group = input.Group,
                             !.Song = input.Song,
                             !.ReleaseDate = got.detail.ReleaseDate,
                             !.Link = got.detail.Link]
      made == RepoCreateSong(tbl, sq, song, t, dbOk)
  IN  IF IsErr(got.err)
      THEN [songs |-> tbl, seq |-> sq, id |-> 0,
            err |-> Wrap("get song data", got.err),
            calls |-> <<"apiClient.GetSongDetails">>]
      ELSE IF IsErr(made.err)
      THEN [songs |-> made.songs, seq |-> made.seq, id |-> 0,
            err |-> Wrap("create song", made.err),
            calls |-> <<"apiClient.GetSongDetails", "repo.CreateSong">>]
      ELSE [songs |-> made.songs, seq |-> made.seq, id |-> made.id,
            err |-> NoErr,
            calls |-> <<"apiClient.GetSongDetails", "repo.CreateSong">>]

SvcCreateSong(tbl, sq, input, lookup, t, dbOk) ==
  LET got == GetSongDetails(lookup)
      song == [NoSong EXCEPT !.Group = input.Group,
                             !.Song = input.Song,
                             !.ReleaseDate = got.detail.ReleaseDate,
                             !.Text = got.detail.Text,
                             !.Link = got.detail.Link]
      made == RepoCreateSong(tbl, sq, song, t, dbOk)
  IN  IF IsErr(got.err)
      THEN [songs |-> tbl, seq |-> sq, id |-> 0,
            err |-> Wrap("get song data", got.err),
            calls |-> <<"apiClient.GetSongDetails">>]
      ELSE IF IsErr(made.err)
      THEN [songs |-> made.songs, seq |-> made.seq, id |-> 0,
            err |-> Wrap("create song", made.err),
            calls |-> <<"apiClient.GetSongDetails", "repo.CreateSong">>]
      ELSE [songs |-> made.songs, seq |-> made.seq, id |-> made.id,
            err |-> NoErr,
            calls |-> <<"apiClient.GetSongDetails", "repo.CreateSong">>]

\* a list that passes the page on as it came
SvcGetSongsPageAsGiven(tbl, filter, dbOk) ==
  LET f2 == IF filter.PageSize <= 0
            THEN [filter EXCEPT !.PageSize = DefaultSongsPageSize]
            ELSE filter
      got == RepoGetSongs(tbl, f2, dbOk)
  IN  IF IsErr(got.err)
      THEN [songs |-> <<>>, err |-> Wrap("list songs", got.err),
            calls |-> <<"repo.GetSongs">>]
      ELSE [songs |-> got.songs, err |-> NoErr, calls |-> <<"repo.GetSongs">>]

SvcGetSongs(tbl, filter, dbOk) ==
  LET f1 == IF filter.Page <= 0 THEN [filter EXCEPT !.Page = 1] ELSE filter
      f2 == IF f1.PageSize <= 0
            THEN [f1 EXCEPT !.PageSize = DefaultSongsPageSize]
            ELSE f1
      got == RepoGetSongs(tbl, f2, dbOk)
  IN  IF IsErr(got.err)
      THEN [songs |-> <<>>, err |-> Wrap("list songs", got.err),
            calls |-> <<"repo.GetSongs">>]
      ELSE [songs |-> got.songs, err |-> NoErr, calls |-> <<"repo.GetSongs">>]

SvcGetSongByID(tbl, id, dbOk) ==
  LET got == RepoGetSongByID(tbl, id, dbOk)
  IN  IF IsErr(got.err)
      THEN [song |-> NoSong, err |-> Wrap("get song", got.err),
            calls |-> <<"repo.GetSongByID">>]
      ELSE IF ~got.found
      THEN [song |-> NoSong, err |-> Err("not_found"),
            calls |-> <<"repo.GetSongByID">>]
      ELSE [song |-> got.song, err |-> NoErr, calls |-> <<"repo.GetSongByID">>]

SvcUpdateSong(tbl, song, t, dbOk) ==
  LET done == RepoUpdateSong(tbl, song, t, dbOk)
  IN  [songs |-> done.songs,
       err |-> IF IsErr(done.err) THEN Wrap("update song", done.err) ELSE NoErr,
       calls |-> <<"repo.UpdateSong">>]

SvcDeleteSong(tbl, id, dbOk) ==
  LET done == RepoDeleteSong(tbl, id, dbOk)
  IN  [songs |-> done.songs,
       err |-> IF IsErr(done.err) THEN Wrap("delete song", done.err) ELSE NoErr,
       calls |-> <<"repo.DeleteSong">>]

SvcGetSongVerses(tbl, id, pagination, dbOk) ==
  LET p1 == IF pagination.Page <= 0
            THEN [pagination EXCEPT !.Page = 1]
            ELSE pagination
      p2 == IF p1.PageSize <= 0
            THEN [p1 EXCEPT !.PageSize = DefaultVersesPageSize]
            ELSE p1
      got == RepoGetSongVerses(tbl, id, p2, dbOk)
  IN  IF IsErr(got.err)
      THEN [verses |-> <<>>, err |-> Wrap("get song verses", got.err),
            calls |-> <<"repo.GetSongVerses">>]
      ELSE [verses |-> got.verses, err |-> NoErr,
            calls |-> <<"repo.GetSongVerses">>]

----------------------------------------------------------------------------
(* Requests and responses *)

NoBody ==
  [json |-> "none", Group |-> <<>>, Song |-> <<>>, ReleaseDate |-> "",
   Text |-> <<>>, Link |-> ""]

NoQuery == [group |-> <<>>, song |-> <<>>, page |-> <<>>, page_size |-> <<>>]

NoLookup == [kind |-> "none", detail |-> NoDetail]

NoFilter == [Group |-> <<>>, SongName |-> <<>>, Page |-> 0, PageSize |-> 0]

NoPagination == [Page |-> 0, PageSize |-> 0]

\* what a request carries (idSeg, body, query: the HTTP request; id, filter,
\* pagination: the arguments of a direct service call) and what its
\* environment does (lookup: the upstream; dbOk: the database)
Req0 ==
  [idSeg |-> <<>>, body |-> NoBody, query |-> NoQuery, lookup |-> NoLookup,
   dbOk |-> TRUE, id |-> 0, filter |-> NoFilter, pagination |-> NoPagination]

\* status, error, message, id, song, list, verses: the response sent;
\* err: the error the service returned (logged only); calls: the service
\* method and the collaborators it invoked
Resp0 ==
  [op |-> "none", req |-> Req0, status |-> 0, error |-> "", message |-> "",
   id |-> 0, song |-> NoSong, list |-> <<>>, verses |-> <<>>, err |-> NoErr,
   calls |-> <<>>]

BadID(op, req) ==
  [Resp0 EXCEPT !.op = op, !.req = req, !.status = StatusBadRequest,
                !.error = "invalid ID format"]

BadData(op, req) ==
  [Resp0 EXCEPT !.op = op, !.req = req, !.status = StatusBadRequest,
                !.error = "invalid data format"]

----------------------------------------------------------------------------
(* SongHandler: each returns the table, the sequence and the response *)

HandleGetSongs(tbl, sq, req) ==
  LET page == Atoi(req.query.page)
      pageSize == Atoi(req.query.page_size)
      filter == [Group |-> req.query.group,
                 SongName |-> req.query.song,
                 Page |-> IF page.ok /\ page.val > 0 THEN page.val ELSE 1,
                 PageSize |-> IF pageSize.ok /\ pageSize.val > 0
                              THEN pageSize.val
                              ELSE DefaultSongsPageSize]
      got == SvcGetSongs(tbl, filter, req.dbOk)
      r == [Resp0 EXCEPT !.op = "GetSongs", !.req = req, !.err = got.err,
                         !.calls = <<"service.GetSongs">> \o got.calls]
  IN  [songs |-> tbl, seq |-> sq,
       resp |-> IF IsErr(got.err)
                THEN [r EXCEPT !.status = StatusInternalServerError,
                               !.error = "error getting song list"]
                ELSE [r EXCEPT !.status = StatusOK, !.list = got.songs]]

HandleGetSongByID(tbl, sq, req) ==
  LET id == ParseInt(req.idSeg)
      got == SvcGetSongByID(tbl, id.val, req.dbOk)
      r == [Resp0 EXCEPT !.op = "GetSongByID", !.req = req, !.err = got.err,
                         !.calls = <<"service.GetSongByID">> \o got.calls]
  IN  [songs |-> tbl, seq |-> sq,
       resp |-> IF ~id.ok THEN BadID("GetSongByID", req)
                ELSE IF IsErr(got.err)
                THEN [r EXCEPT !.status = StatusNotFound,
                               !.error = "song not found"]
                ELSE [r EXCEPT !.status = StatusOK, !.song = got.song]]

\* ShouldBindJSON into model.SongInput: group and song are binding:"required"
HandleCreateSong(tbl, sq, t, req) ==
  LET bound == /\ req.body.json = "ok"
               /\ req.body.Group # <<>>
               /\ req.body.Song # <<>>
      input == [Group |-> req.body.Group, Song |-> req.body.Song]
      made == SvcCreateSong(tbl, sq, input, req.lookup, t, req.dbOk)
      r == [Resp0 EXCEPT !.op = "CreateSong", !.req = req, !.err = made.err,
                         !.calls = <<"service.CreateSong">> \o made.calls]
  IN  IF ~bound
      THEN [songs |-> tbl, seq |-> sq, resp |-> BadData("CreateSong", req)]
      ELSE [songs |-> made.songs, seq |-> made.seq,
            resp |-> IF IsErr(made.err)
                     THEN [r EXCEPT !.status = StatusInternalServerError,
                                    !.error = "error creating song"]
                     ELSE [r EXCEPT !.status = StatusCreated, !.id = made.id]]

\* an update handler that puts the cause of the service's error in the body
HandleUpdateSongLeaking(tbl, sq, t, req) ==
  LET id == ParseInt(req.idSeg)
      song == [NoSong EXCEPT !.ID = id.val,
                             !.Group = req.body.Group,
                             !.Song = req.body.Song,
                             !.ReleaseDate = req.body.ReleaseDate,
                             !.Text = req.body.Text,
                             !.Link = req.body.Link]
      done == SvcUpdateSong(tbl, song, t, req.dbOk)
      r == [Resp0 EXCEPT !.op = "UpdateSong", !.req = req, !.err = done.err,
                         !.calls = <<"service.UpdateSong">> \o done.calls]
  IN  IF ~id.ok
      THEN [songs |-> tbl, seq |-> sq, resp |-> BadID("UpdateSong", req)]
      ELSE IF req.body.json # "ok"
      THEN [songs |-> tbl, seq |-> sq, resp |-> BadData("UpdateSong", req)]
      ELSE [songs |-> done.songs, seq |-> sq,
            resp |-> IF IsErr(done.err)
                     THEN [r EXCEPT !.status = StatusInternalServerError,
                                    !.error = done.err.cause]
                     ELSE [r EXCEPT !.status = StatusOK,
                                    !.message = "song updated"]]

\* ShouldBindJSON into model.Song (no required fields); song.ID = id
HandleUpdateSong(tbl, sq, t, req) ==
  LET id == ParseInt(req.idSeg)
      song == [NoSong EXCEPT !.ID = id.val,
                             !.Group = req.body.Group,
                             !.Song = req.body.Song,
                             !.ReleaseDate = req.body.ReleaseDate,
                             !.Text = req.body.Text,
                             !.Link = req.body.Link]
      done == SvcUpdateSong(tbl, song, t, req.dbOk)
      r == [Resp0 EXCEPT !.op = "UpdateSong", !.req = req, !.err = done.err,
                         !.calls = <<"service.UpdateSong">> \o done.calls]
  IN  IF ~id.ok
      THEN [songs |-> tbl, seq |-> sq, resp |-> BadID("UpdateSong", req)]
      ELSE IF req.body.json # "ok"
      THEN [songs |-> tbl, seq |-> sq, resp |-> BadData("UpdateSong", req)]
      ELSE [songs |-> done.songs, seq |-> sq,
            resp |-> IF IsErr(done.err)
                     THEN [r EXCEPT !.status = StatusInternalServerError,
                                    !.error = "error updating song"]
                     ELSE [r EXCEPT !.status = StatusOK,
                                    !.message = "song updated"]]

\* a delete handler that answers 404 when the service reports no such row
HandleDeleteSongNotFound404(tbl, sq, req) ==
  LET id == ParseInt(req.idSeg)
      done == SvcDeleteSong(tbl, id.val, req.dbOk)
      r == [Resp0 EXCEPT !.op = "DeleteSong", !.req = req, !.err = done.err,
                         !.calls = <<"service.DeleteSong">> \o done.calls]
  IN  IF ~id.ok
      THEN [songs |-> tbl, seq |-> sq, resp |-> BadID("DeleteSong", req)]
      ELSE [songs |-> done.songs, seq |-> sq,
            resp |-> IF IsErr(done.err)
                     THEN [r EXCEPT !.status = IF done.err.cause = "not_found"
                                                THEN StatusNotFound
                                                ELSE StatusInternalServerError,
                                    !.error = "error deleting song"]
                     ELSE [r EXCEPT !.status = StatusOK,
                                    !.message = "song deleted"]]

HandleDeleteSong(tbl, sq, req) ==
  LET id == ParseInt(req.idSeg)
      done == SvcDeleteSong(tbl, id.val, req.dbOk)
      r == [Resp0 EXCEPT !.op = "DeleteSong", !.req = req, !.err = done.err,
                         !.calls = <<"service.DeleteSong">> \o done.calls]
  IN  IF ~id.ok
      THEN [songs |-> tbl, seq |-> sq, resp |-> BadID("DeleteSong", req)]
      ELSE [songs |-> done.songs, seq |-> sq,
            resp |-> IF IsErr(done.err)
                     THEN [r EXCEPT !.status = StatusInternalServerError,
                                    !.error = "error deleting song"]
                     ELSE [r EXCEPT !.status = StatusOK,
                                    !.message = "song deleted"]]

HandleGetSongVerses(tbl, sq, req) ==
  LET id == ParseInt(req.idSeg)
      page == Atoi(req.query.page)
      pageSize == Atoi(req.query.page_size)
      pagination == [Page |-> IF page.ok /\ page.val > 0 THEN page.val ELSE 1,
                     PageSize |-> IF pageSize.ok /\ pageSize.val > 0
                                  THEN pageSize.val
                                  ELSE DefaultVersesPageSize]
      got == SvcGetSongVerses(tbl, id.val, pagination, req.dbOk)
      r == [Resp0 EXCEPT !.op = "GetSongVerses", !.req = req, !.err = got.err,
                         !.calls = <<"service.GetSongVerses">> \o got.calls]
  IN  [songs |-> tbl, seq |-> sq,
       resp |-> IF ~id.ok THEN BadID("GetSongVerses", req)
                ELSE IF IsErr(got.err)
                THEN [r EXCEPT !.status = StatusInternalServerError,
                               !.error = "error getting song verses"]
                ELSE [r EXCEPT !.status = StatusOK, !.verses = got.verses]]

\* the routes of the song group: the handler each operation is bound to
HandleOp(op, tbl, sq, t, req) ==
  CASE op = "GetSongs" -> HandleGetSongs(tbl, sq, req)
    [] op = "GetSongByID" -> HandleGetSongByID(tbl, sq, req)
    [] op = "CreateSong" -> HandleCreateSong(tbl, sq, t, req)
    [] op = "UpdateSong" -> HandleUpdateSong(tbl, sq, t, req)
    [] op = "DeleteSong" -> HandleDeleteSong(tbl, sq, req)
    [] op = "GetSongVerses" -> HandleGetSongVerses(tbl, sq, req)

----------------------------------------------------------------------------
(* Inputs *)

Groups == {<<"A", "b">>, <<"a">>}
Titles == {<<"B">>, <<"b", "a">>}

ThreeVerses == <<"A", NL, NL, "B", NL, NL, "C">>

Details ==
  {[ReleaseDate |-> "16.07.2006", Text |-> ThreeVerses, Link |-> "link-1"],
   NoDetail}

Lookups ==
  {[kind |-> "ok", detail |-> d] : d \in Details}
    \cup {[kind |-> k, detail |-> NoDetail] :
            k \in {"do_error", "bad_status", "decode_error"}}

Itoa(i) == <<CHOOSE c \in Digits : DigitVal(c) = i>>

IdSegs ==
  {Itoa(i) : i \in 0..MaxId}
    \cup {<<"x">>, <<"1", "x">>, <<"-", "1">>}

\* the titles that request bodies carry
BodyTitles == {<<"B">>}

CreateBodies ==
  {[NoBody EXCEPT !.json = "malformed"]}
    \cup {[NoBody EXCEPT !.json = "ok", !.Song = <<"B">>]}
    \cup {[NoBody EXCEPT !.json = "ok", !.Group = g, !.Song = s] :
            g \in Groups, s \in BodyTitles}

UpdateBodies ==
  {[NoBody EXCEPT !.json = "malformed"]}
    \cup {[json |-> "ok", Group |-> g, Song |-> s,
           ReleaseDate |-> d.ReleaseDate, Text |-> d.Text, Link |-> d.Link] :
            g \in Groups, s \in BodyTitles, d \in Details}

PageParams == {<<>>, <<"0">>, <<"2">>}
PageSizeParams == {<<>>, <<"1">>}

ListQueries ==
  {[group |-> g, song |-> <<>>, page |-> p, page_size |-> z] :
     g \in {<<>>, <<"a">>}, p \in PageParams, z \in PageSizeParams}

VersesQueries ==
  {[NoQuery EXCEPT !.page = p, !.page_size = z] :
     p \in PageParams, z \in PageSizeParams}

FilterStrings == {<<>>, <<"a">>, <<"_">>}
TitleFilterStrings == {<<>>, <<"b">>}

Filters ==
  {[Group |-> g, SongName |-> s, Page |-> p, PageSize |-> z] :
     g \in FilterStrings, s \in TitleFilterStrings,
     p \in (-1)..MaxPage, z \in (-1)..MaxPageSize}

Paginations ==
  {[Page |-> p, PageSize |-> z] : p \in (-1)..MaxPage, z \in (-1)..MaxPageSize}

\* tables of at most MaxRows rows with distinct ids and distinct (group, song)
Absent == <<>>
QuerySlots == {<<g, s, d>> : g \in Groups, s \in Titles, d \in Details}

TableOf(f) ==
  {[ID |-> i, Group |-> f[i][1], Song |-> f[i][2],
    ReleaseDate |-> f[i][3].ReleaseDate, Text |-> f[i][3].Text,
    Link |-> f[i][3].Link, CreatedAt |-> 0, UpdatedAt |-> 0] :
     i \in {j \in DOMAIN f : f[j] # Absent}}

QueryTables ==
  {TableOf(f) : f \in {g \in [1..MaxRows -> QuerySlots \cup {Absent}] :
     \A i, j \in 1..MaxRows :
        (i # j /\ g[i] # Absent /\ g[j] # Absent)
          => <<g[i][1], g[i][2]>> # <<g[j][1], g[j][2]>>}}

----------------------------------------------------------------------------
(* The server.  Requests are served concurrently, one goroutine each.  Every *)
(* handler touches the table in exactly one SQL statement, which the         *)
(* database executes atomically: an action below is one request at the       *)
(* moment its statement executes.  What the request did before that moment   *)
(* read no table state: the body and the path were bound, the external       *)
(* lookup was made (its outcome is an input of the action) and, in a create  *)
(* or an update, the clock was read (the reading is an input too, see        *)
(* ClockReadings).  The steps are separate actions in SpecConc below.        *)
(* The response is held in resp until it is delivered.                       *)

Init ==
  /\ songs = {}
  /\ seq = 0
  /\ now = 0
  /\ resp = Resp0
  /\ inflight = <<>>

Idle == resp.op = "none"

Apply(out) ==
  /\ songs' = out.songs
  /\ seq' = out.seq
  /\ resp' = out.resp
  /\ UNCHANGED <<now, inflight>>

GetSongs ==
  /\ Idle
  /\ \E q \in ListQueries, ok \in BOOLEAN :
       Apply(HandleGetSongs(songs, seq, [Req0 EXCEPT !.query = q, !.dbOk = ok]))

GetSongByID ==
  /\ Idle
  /\ \E s \in IdSegs, ok \in BOOLEAN :
       Apply(HandleGetSongByID(songs, seq,
                               [Req0 EXCEPT !.idSeg = s, !.dbOk = ok]))

\* now := time.Now() comes before the statement is sent, and the clock moves
\* and other requests' statements execute in between: the reading that a
\* statement carries is any reading the clock has shown up to the moment the
\* statement executes
ClockReadings == 0..now

\* the INSERT of a create request whose clock reading was t
CreateSong ==
  /\ Idle
  /\ seq < MaxId
  /\ \E b \in CreateBodies, l \in Lookups, ok \in BOOLEAN,
        t \in ClockReadings :
       Apply(HandleCreateSong(songs, seq, t,
               [Req0 EXCEPT !.body = b, !.lookup = l, !.dbOk = ok]))

\* the UPDATE of an update request whose clock reading was t
UpdateSong ==
  /\ Idle
  /\ \E s \in IdSegs, b \in UpdateBodies, ok \in BOOLEAN,
        t \in ClockReadings :
       Apply(HandleUpdateSong(songs, seq, t,
               [Req0 EXCEPT !.idSeg = s, !.body = b, !.dbOk = ok]))

DeleteSong ==
  /\ Idle
  /\ \E s \in IdSegs, ok \in BOOLEAN :
       Apply(HandleDeleteSong(songs, seq,
                              [Req0 EXCEPT !.idSeg = s, !.dbOk = ok]))

GetSongVerses ==
  /\ Idle
  /\ \E s \in IdSegs, q \in VersesQueries, ok \in BOOLEAN :
       Apply(HandleGetSongVerses(songs, seq,
               [Req0 EXCEPT !.idSeg = s, !.query = q, !.dbOk = ok]))

\* the handler has returned and the response has been written
Deliver ==
  /\ ~Idle
  /\ resp' = Resp0
  /\ UNCHANGED <<songs, seq, now, inflight>>

\* the clock moves
Tick ==
  /\ Idle
  /\ now < MaxClock
  /\ now' = now + 1
  /\ UNCHANGED <<songs, seq, resp, inflight>>

Next ==
  \/ GetSongs
  \/ GetSongByID
  \/ CreateSong
  \/ UpdateSong
  \/ DeleteSong
  \/ GetSongVerses
  \/ Deliver
  \/ Tick

Spec == Init /\ [][Next]_vars

----------------------------------------------------------------------------
(* Concurrent writers, step by step.  Each request runs in its own          *)
(* goroutine.  A create is SongService.CreateSong: the external lookup, the *)
(* clock reading and the INSERT are its three steps.  An update is          *)
(* SongService.UpdateSong: the clock reading and the UPDATE are its two     *)
(* steps.  The steps of different requests interleave freely and the clock  *)
(* moves at any moment; each SQL statement is atomic.                       *)

Requests == 1..NumRequests

ConcTitles == {<<"B">>}

ConcLookups ==
  {[kind |-> "ok", detail |-> NoDetail], [kind |-> "do_error", detail |-> NoDetail]}

NewRequest(k, g, s, l, ok) ==
  [kind |-> k, pc |-> IF k = "create" THEN "lookup" ELSE "stamp",
   input |-> [Group |-> g, Song |-> s], lookup |-> l, dbOk |-> ok,
   detail |-> NoDetail, t |-> 0, id |-> IF k = "create" THEN 0 ELSE 1,
   err |-> NoErr]

\* an update request targets the row of id 1, which a concurrent create may
\* or may not have inserted by the time the UPDATE executes
InitConc ==
  /\ songs = {}
  /\ seq = 0
  /\ now = 0
  /\ resp = Resp0
  /\ inflight \in [Requests ->
                     {NewRequest("create", g, s, l, ok) :
                        g \in Groups, s \in ConcTitles, l \in ConcLookups,
                        ok \in BOOLEAN}
                       \cup {NewRequest("update", g, s, NoLookup, ok) :
                               g \in Groups, s \in ConcTitles, ok \in BOOLEAN}]

\* the model.Song a request sends to the repository
SongOf(c) ==
  [NoSong EXCEPT !.ID = IF c.kind = "update" THEN c.id ELSE 0,
                 !.Group = c.input.Group,
                 !.Song = c.input.Song,
                 !.ReleaseDate = c.detail.ReleaseDate,
                 !.Text = c.detail.Text,
                 !.Link = c.detail.Link]

\* s.apiClient.GetSongDetails(ctx, input.Group, input.Song)
CreateLookupStep(p) ==
  LET c == inflight[p]
      got == GetSongDetails(c.lookup)
  IN  /\ c.kind = "create" /\ c.pc = "lookup"
      /\ inflight' =
           [inflight EXCEPT ![p] =
              IF IsErr(got.err)
              THEN [c EXCEPT !.pc = "done",
                             !.err = Wrap("get song data", got.err)]
              ELSE [c EXCEPT !.pc = "stamp", !.detail = got.detail]]
      /\ UNCHANGED <<songs, seq, now, resp>>

\* now := time.Now(); song.CreatedAt = now; song.UpdatedAt = now
CreateStampStep(p) ==
  LET c == inflight[p]
  IN  /\ c.kind = "create" /\ c.pc = "stamp"
      /\ inflight' = [inflight EXCEPT ![p] = [c EXCEPT !.pc = "insert",
                                                       !.t = now]]
      /\ UNCHANGED <<songs, seq, now, resp>>

\* r.db.QueryRowContext(ctx, INSERT ... RETURNING id).Scan(&id)
CreateInsertStep(p) ==
  LET c == inflight[p]
      made == RepoCreateSong(songs, seq, SongOf(c), c.t, c.dbOk)
  IN  /\ c.kind = "create" /\ c.pc = "insert"
      /\ songs' = made.songs
      /\ seq' = made.seq
      /\ inflight' =
           [inflight EXCEPT ![p] =
              IF IsErr(made.err)
              THEN [c EXCEPT !.pc = "done",
                             !.err = Wrap("create song", made.err)]
              ELSE [c EXCEPT !.pc = "done", !.id = made.id]]
      /\ UNCHANGED <<now, resp>>

\* song.UpdatedAt = time.Now()
UpdateStampStep(p) ==
  LET c == inflight[p]
  IN  /\ c.kind = "update" /\ c.pc = "stamp"
      /\ inflight' = [inflight EXCEPT ![p] = [c EXCEPT !.pc = "exec",
                                                       !.t = now]]
      /\ UNCHANGED <<songs, seq, now, resp>>

\* r.db.ExecContext(ctx, UPDATE songs SET ... WHERE id = $7)
UpdateExecStep(p) ==
  LET c == inflight[p]
      done == SvcUpdateSong(songs, SongOf(c), c.t, c.dbOk)
  IN  /\ c.kind = "update" /\ c.pc = "exec"
      /\ songs' = done.songs
      /\ inflight' = [inflight EXCEPT ![p] = [c EXCEPT !.pc = "done",
                                                       !.err = done.err]]
      /\ UNCHANGED <<seq, now, resp>>

CreateLookup == \E p \in Requests : CreateLookupStep(p)

CreateStamp == \E p \in Requests : CreateStampStep(p)

CreateInsert == \E p \in Requests : CreateInsertStep(p)

UpdateStamp == \E p \in Requests : UpdateStampStep(p)

UpdateExec == \E p \in Requests : UpdateExecStep(p)

NextConc ==
  \/ CreateLookup
  \/ CreateStamp
  \/ CreateInsert
  \/ UpdateStamp
  \/ UpdateExec
  \/ Tick

SpecConc == InitConc /\ [][NextConc]_vars

----------------------------------------------------------------------------
(* Queries: direct calls of the service's read methods on a given table *)

InitQuery ==
  /\ songs \in QueryTables
  /\ seq = MaxRows
  /\ now = 0
  /\ resp = Resp0
  /\ inflight = <<>>

ServiceGetSongs ==
  /\ Idle
  /\ \E f \in Filters, ok \in BOOLEAN :
       LET got == SvcGetSongs(songs, f, ok)
       IN  /\ resp' = [Resp0 EXCEPT !.op = "service.GetSongs",
                                    !.req = [Req0 EXCEPT !.filter = f,
                                                         !.dbOk = ok],
                                    !.list = got.songs,
                                    !.err = got.err,
                                    !.calls = got.calls]
           /\ UNCHANGED <<songs, seq, now, inflight>>

ServiceGetSongVerses ==
  /\ Idle
  /\ \E i \in 0..MaxRows, p \in Paginations, ok \in BOOLEAN :
       LET got == SvcGetSongVerses(songs, i, p, ok)
       IN  /\ resp' = [Resp0 EXCEPT !.op = "service.GetSongVerses",
                                    !.req = [Req0 EXCEPT !.id = i,
                                                         !.pagination = p,
                                                         !.dbOk = ok],
                                    !.verses = got.verses,
                                    !.err = got.err,
                                    !.calls = got.calls]
           /\ UNCHANGED <<songs, seq, now, inflight>>

NextQuery ==
  \/ ServiceGetSongs
  \/ ServiceGetSongVerses
  \/ Deliver

SpecQuery == InitQuery /\ [][NextQuery]_vars

----------------------------------------------------------------------------
(* Go's int at its full width.  A 64-bit word is five limbs of 15 bits,     *)
(* least significant first, the last holding the top 4 bits; a negative     *)
(* number is its two's complement.  Arithmetic wraps modulo 2^64.           *)

LimbBase == 2^15
TopBase == 2^4
LimbIdx == 1..5

Zero64 == [i \in LimbIdx |-> 0]
One64 == [Zero64 EXCEPT ![1] = 1]
MaxInt64 == [i \in LimbIdx |-> IF i = 5 THEN TopBase \div 2 - 1 ELSE LimbBase - 1]

\* a small natural number (below 2^30) as a word
ToInt64(n) == [Zero64 EXCEPT ![1] = n % LimbBase, ![2] = n \div LimbBase]

\* carry from each limb into the next; the top limb keeps what is left
RECURSIVE CarryFrom(_, _, _)
CarryFrom(d, i, c) ==
  IF i = 5 THEN <<d[i] + c>>
  ELSE <<(d[i] + c) % LimbBase>> \o CarryFrom(d, i + 1, (d[i] + c) \div LimbBase)

Carry(d) == CarryFrom(d, 1, 0)

\* reduction modulo 2^64
Wrap64(a) == [a EXCEPT ![5] = a[5] % TopBase]

Add64(a, b) == Wrap64(Carry([i \in LimbIdx |-> a[i] + b[i]]))

Neg64(a) ==
  Add64([i \in LimbIdx |-> IF i = 5 THEN TopBase - 1 - a[i]
                           ELSE LimbBase - 1 - a[i]], One64)

Sub64(a, b) == Add64(a, Neg64(b))

\* a word times one limb, before reduction
TimesLimb(a, d) == Carry([i \in LimbIdx |-> a[i] * d])

ShiftLimbs(a, k) == [i \in LimbIdx |-> IF i > k THEN a[i - k] ELSE 0]

RECURSIVE MulFrom(_, _, _)
MulFrom(a, b, j) ==
  IF j > 5 THEN Zero64
  ELSE Add64(Wrap64(ShiftLimbs(Wrap64(TimesLimb(a, b[j])), j - 1)),
             MulFrom(a, b, j + 1))

Mul64(a, b) == MulFrom(a, b, 1)

IsNeg64(a) == a[5] >= TopBase \div 2

\* unsigned comparison, from the top limb down
LessU(a, b) ==
  \E i \in LimbIdx : a[i] < b[i] /\ \A j \in LimbIdx : j > i => a[j] = b[j]

\* signed comparison a < b
Less64(a, b) ==
  IF IsNeg64(a) # IsNeg64(b) THEN IsNeg64(a) ELSE LessU(a, b)

\* the value of a word that lies in 0..2^30-1
FromInt64(a) == a[1] + LimbBase * a[2]

\* the magnitude of a run of decimal digits, taken four digits at a time
\* (n = front * 10^4 + last four), top limb unreduced
RECURSIVE DigitsValue64(_)
DigitsValue64(s) ==
  IF Len(s) <= 4 THEN ToInt64(DigitsValue(s, 0))
  ELSE LET front == DigitsValue64(SubSeq(s, 1, Len(s) - 4))
           last == DigitsValue(SubSeq(s, Len(s) - 3, Len(s)), 0)
       IN  Carry([i \in LimbIdx |->
                    front[i] * 10^4 + (IF i = 1 THEN last ELSE 0)])

RECURSIVE StripZeros(_)
StripZeros(s) ==
  IF Len(s) > 1 /\ s[1] = "0" THEN StripZeros(Tail(s)) ELSE s

\* strconv.Atoi on a 64-bit platform: an optional sign and decimal digits;
\* a value outside -2^63..2^63-1 is a range error
Atoi64(s) ==
  LET signed == s # <<>> /\ s[1] \in {"+", "-"}
      neg == signed /\ s[1] = "-"
      body == IF signed THEN Tail(s) ELSE s
      digits == StripZeros(body)
      mag == DigitsValue64(digits)
      limit == IF neg THEN Add64(MaxInt64, One64) ELSE MaxInt64
  IN  IF body = <<>> \/ (\E i \in 1..Len(body) : body[i] \notin Digits)
      THEN [ok |-> FALSE, val |-> Zero64]
      ELSE IF Len(digits) > 19 \/ mag[5] >= TopBase \/ LessU(limit, mag)
      THEN [ok |-> FALSE, val |-> Zero64]
      ELSE [ok |-> TRUE, val |-> IF neg THEN Neg64(mag) ELSE mag]

\* SongRepository.GetSongVerses with page and pageSize at int's width;
\* verses[start:end] panics unless 0 <= start <= end <= len(verses)
RepoGetSongVerses64(tbl, id, pagination, dbOk) ==
  LET got == RepoGetSongByID(tbl, id, dbOk)
      verses == Split(got.song.Text, <<NL, NL>>)
      len == ToInt64(Len(verses))
      start == Mul64(Sub64(pagination.Page, One64), pagination.PageSize)
      end == Add64(start, pagination.PageSize)
      end2 == IF Less64(len, end) THEN len ELSE end
  IN  IF IsErr(got.err)
      THEN [verses |-> <<>>, err |-> got.err, panic |-> FALSE]
      ELSE IF ~got.found
      THEN [verses |-> <<>>, err |-> Err("not_found"), panic |-> FALSE]
      ELSE IF ~Less64(start, len)
      THEN [verses |-> <<>>, err |-> NoErr, panic |-> FALSE]
      ELSE IF IsNeg64(start) \/ Less64(end2, start)
      THEN [verses |-> <<>>, err |-> NoErr, panic |-> TRUE]
      ELSE [verses |-> SubSeq(verses, FromInt64(start) + 1, FromInt64(end2)),
            err |-> NoErr, panic |-> FALSE]

SvcGetSongVerses64(tbl, id, pagination, dbOk) ==
  LET p1 == IF ~Less64(Zero64, pagination.Page)
            THEN [pagination EXCEPT !.Page = One64]
            ELSE pagination
      p2 == IF ~Less64(Zero64, p1.PageSize)
            THEN [p1 EXCEPT !.PageSize = ToInt64(DefaultVersesPageSize)]
            ELSE p1
      got == RepoGetSongVerses64(tbl, id, p2, dbOk)
  IN  IF IsErr(got.err)
      THEN [verses |-> <<>>, err |-> Wrap("get song verses", got.err),
            panic |-> FALSE, calls |-> <<"repo.GetSongVerses">>]
      ELSE [verses |-> got.verses, err |-> NoErr, panic |-> got.panic,
            calls |-> <<"repo.GetSongVerses">>]

\* the query's page and page_size as the handler reads them
Pagination64(query) ==
  LET page == Atoi64(query.page)
      pageSize == Atoi64(query.page_size)
  IN  [Page |-> IF page.ok /\ Less64(Zero64, page.val) THEN page.val
                ELSE One64,
       PageSize |-> IF pageSize.ok /\ Less64(Zero64, pageSize.val)
                    THEN pageSize.val
                    ELSE ToInt64(DefaultVersesPageSize)]

\* SongHandler.GetSongVerses; a panic below it is caught by gin.Recovery,
\* which answers 500 with no body
HandleGetSongVerses64(tbl, sq, req) ==
  LET id == ParseInt(req.idSeg)
      got == SvcGetSongVerses64(tbl, id.val, Pagination64(req.query), req.dbOk)
      r == [Resp0 EXCEPT !.op = "GetSongVerses", !.req = req, !.err = got.err,
                         !.calls = <<"service.GetSongVerses">> \o got.calls]
  IN  [songs |-> tbl, seq |-> sq,
       resp |-> IF ~id.ok THEN BadID("GetSongVerses", req)
                ELSE IF got.panic
                THEN [r EXCEPT !.status = StatusInternalServerError,
                               !.err = Err("panic")]
                ELSE IF IsErr(got.err)
                THEN [r EXCEPT !.status = StatusInternalServerError,
                               !.error = "error getting song verses"]
                ELSE [r EXCEPT !.status = StatusOK, !.verses = got.verses]]

\* decimal digits of page and page_size up to the ends of the int range
Chars(n) ==
  CASE n = "1" -> <<"1">>
    [] n = "2" -> <<"2">>
    [] n = "8" -> <<"8">>
    [] n = "2^61+1" -> <<"2", "3", "0", "5", "8", "4", "3", "0", "0", "9",
                         "2", "1", "3", "6", "9", "3", "9", "5", "3">>
    [] n = "2^62+1" -> <<"4", "6", "1", "1", "6", "8", "6", "0", "1", "8",
                         "4", "2", "7", "3", "8", "7", "9", "0", "5">>
    [] n = "2^63-1" -> <<"9", "2", "2", "3", "3", "7", "2", "0", "3", "6",
                         "8", "5", "4", "7", "7", "5", "8", "0", "7">>
    [] n = "2^63" -> <<"9", "2", "2", "3", "3", "7", "2", "0", "3", "6",
                       "8", "5", "4", "7", "7", "5", "8", "0", "8">>

WidePageParams ==
  {<<>>} \cup {Chars(n) : n \in {"1", "2", "2^61+1", "2^62+1", "2^63-1", "2^63"}}

WidePageSizeParams ==
  {<<>>} \cup {Chars(n) : n \in {"1", "2", "8", "2^63-1"}}

WideQueries ==
  {[NoQuery EXCEPT !.page = p, !.page_size = z] :
     p \in WidePageParams, z \in WidePageSizeParams}

WideTexts == {<<>>, <<"A", NL, NL, "B">>, ThreeVerses}

WideTables ==
  {{}} \cup {{[NoSong EXCEPT !.ID = 1, !.Group = <<"a">>, !.Song = <<"B">>,
                             !.Text = t]} : t \in WideTexts}

InitWide ==
  /\ songs \in WideTables
  /\ seq = Cardinality(songs)
  /\ now = 0
  /\ resp = Resp0
  /\ inflight = <<>>

GetSongVersesWide ==
  /\ Idle
  /\ \E s \in {<<"1">>, <<"2">>}, q \in WideQueries, ok \in BOOLEAN :
       /\ resp' = HandleGetSongVerses64(songs, seq,
                    [Req0 EXCEPT !.idSeg = s, !.query = q, !.dbOk = ok]).resp
       /\ UNCHANGED <<songs, seq, now, inflight>>

NextWide ==
  \/ GetSongVersesWide
  \/ Deliver

SpecWide == InitWide /\ [][NextWide]_vars

----------------------------------------------------------------------------
(* Properties *)

Range(s) == {s[i] : i \in DOMAIN s}

Max(a, b) == IF a >= b THEN a ELSE b

HasRow(tbl, id) == \E r \in tbl : r.ID = id

RowOf(tbl, id) == CHOOSE r \in tbl : r.ID = id

\* the service was invoked for the request resp answers
Invoked(r) == r.calls # <<>>

\* C1: in every reachable state no two stored rows have the same
\* (group, song) pair
C1_UniqueGroupSong ==
  \A r, q \in songs : (r.Group = q.Group /\ r.Song = q.Song) => r = q

C1_Witness ==
  /\ Cardinality(songs) = 2
  /\ resp.op = "UpdateSong"
  /\ resp.err.cause = "unique_violation"

\* C2: a create whose (group, song) is already stored, with the lookup
\* answering and the database executing the insert, fails with the unique
\* violation as its cause (not the cause of a generic storage failure) and
\* leaves the table as it was
C2_DuplicateCreateConflicts ==
  [][(/\ resp'.op = "CreateSong"
      /\ Invoked(resp')
      /\ resp'.req.lookup.kind = "ok"
      /\ resp'.req.dbOk
      /\ \E r \in songs : /\ r.Group = resp'.req.body.Group
                          /\ r.Song = resp'.req.body.Song)
       => (/\ resp'.err.cause = "unique_violation"
           /\ resp'.err.cause # "db_failure"
           /\ resp'.id = 0
           /\ songs' = songs)]_vars

C2_Witness ==
  /\ resp.op = "CreateSong"
  /\ resp.req.dbOk
  /\ resp.err.cause = "unique_violation"
  /\ \E r \in songs : /\ r.Group = resp.req.body.Group
                      /\ r.Song = resp.req.body.Song

\* C3: when the external lookup fails during CreateSong the service returns
\* the upstream error, the repository's CreateSong is not called, and the
\* table and the id sequence are as they were
C3_LookupFailureAborts ==
  [][(/\ resp'.op = "CreateSong"
      /\ Invoked(resp')
      /\ resp'.req.lookup.kind # "ok")
       => (/\ IsErr(resp'.err)
           /\ resp'.err.cause = "upstream"
           /\ "repo.CreateSong" \notin Range(resp'.calls)
           /\ songs' = songs
           /\ seq' = seq)]_vars

C3_Witness ==
  /\ resp.op = "CreateSong"
  /\ resp.req.lookup.kind = "decode_error"
  /\ resp.req.dbOk
  /\ IsErr(resp.err)
  /\ songs # {}
  /\ ~(\E r \in songs : /\ r.Group = resp.req.body.Group
                        /\ r.Song = resp.req.body.Song)

\* C4: after a successful CreateSong the returned id is positive and
\* GetSongByID(id) returns the input's group and song with the release
\* date, text and link the lookup returned
C4_CreateThenGet ==
  (resp.op = "CreateSong" /\ Invoked(resp) /\ ~IsErr(resp.err))
    => /\ resp.id > 0
       /\ LET got == SvcGetSongByID(songs, resp.id, TRUE)
          IN  /\ ~IsErr(got.err)
              /\ got.song.ID = resp.id
              /\ got.song.Group = resp.req.body.Group
              /\ got.song.Song = resp.req.body.Song
              /\ got.song.ReleaseDate = resp.req.lookup.detail.ReleaseDate
              /\ got.song.Text = resp.req.lookup.detail.Text
              /\ got.song.Link = resp.req.lookup.detail.Link

C4_Witness ==
  /\ resp.op = "CreateSong"
  /\ resp.status = StatusCreated
  /\ resp.id = 2
  /\ resp.req.lookup.detail.Text = ThreeVerses
  /\ Cardinality(songs) = 2

\* C5: UpdateSong and DeleteSong for an id no row has, executed by the
\* database, fail with the not-found error and leave the table as it was
C5_MissingIdNotFound ==
  [][(/\ resp'.op \in {"UpdateSong", "DeleteSong"}
      /\ Invoked(resp')
      /\ resp'.req.dbOk
      /\ ~HasRow(songs, ParseInt(resp'.req.idSeg).val))
       => (/\ resp'.err.cause = "not_found"
           /\ songs' = songs)]_vars

C5_Witness ==
  /\ resp.op = "DeleteSong"
  /\ resp.req.dbOk
  /\ resp.err.cause = "not_found"
  /\ songs # {}

\* C6: for an existing song whose text splits into verses v[0..n-1],
\* GetSongVerses(id, page, pageSize) with page >= 1 and pageSize >= 1
\* returns v[(page-1)*pageSize .. min(page*pageSize, n) - 1] in order, and
\* the empty sequence without error when (page-1)*pageSize >= n
C6_VersesPage ==
  (/\ resp.op = "service.GetSongVerses"
   /\ resp.req.dbOk
   /\ resp.req.pagination.Page >= 1
   /\ resp.req.pagination.PageSize >= 1
   /\ HasRow(songs, resp.req.id))
    => LET v == Split(RowOf(songs, resp.req.id).Text, <<NL, NL>>)
           n == Len(v)
           lo == (resp.req.pagination.Page - 1) * resp.req.pagination.PageSize
           hi == Min(resp.req.pagination.Page * resp.req.pagination.PageSize, n)
       IN  /\ ~IsErr(resp.err)
           /\ resp.verses = IF lo >= n THEN <<>>
                            ELSE [k \in 1..(hi - lo) |-> v[lo + k]]

C6_Witness ==
  /\ resp.op = "service.GetSongVerses"
  /\ resp.req.pagination = [Page |-> 2, PageSize |-> 2]
  /\ resp.verses = << <<"C">> >>

\* C7: the service's GetSongs with page <= 0 returns what it returns with
\* page = 1, and with pageSize <= 0 what it returns with pageSize = 10;
\* GetSongVerses likewise with page = 1 and pageSize = 5
C7_DefaultsEquivalent ==
  /\ resp.op = "service.GetSongs" =>
       LET f == resp.req.filter
           same(g) == LET got == SvcGetSongs(songs, g, resp.req.dbOk)
                      IN  resp.list = got.songs /\ resp.err = got.err
       IN  /\ f.Page <= 0 => same([f EXCEPT !.Page = 1])
           /\ f.PageSize <= 0 => same([f EXCEPT !.PageSize = 10])
  /\ resp.op = "service.GetSongVerses" =>
       LET p == resp.req.pagination
           same(g) == LET got == SvcGetSongVerses(songs, resp.req.id, g,
                                                  resp.req.dbOk)
                      IN  resp.verses = got.verses /\ resp.err = got.err
       IN  /\ p.Page <= 0 => same([p EXCEPT !.Page = 1])
           /\ p.PageSize <= 0 => same([p EXCEPT !.PageSize = 5])

C7_Witness ==
  /\ resp.op = "service.GetSongs"
  /\ resp.req.filter.Page = -1
  /\ resp.req.filter.PageSize = 2
  /\ resp.req.dbOk
  /\ Len(resp.list) = 2
  /\ Cardinality(songs) = 3

\* C8: List with page >= 1 and pageSize >= 1 returns the rows matching the
\* filter in descending id order, skipping the first (page-1)*pageSize and
\* returning at most pageSize; without a filter every row is a candidate;
\* a page with no row is the empty sequence, not an error
C8_ListPage ==
  (/\ resp.op = "service.GetSongs"
   /\ resp.req.dbOk
   /\ resp.req.filter.Page >= 1
   /\ resp.req.filter.PageSize >= 1)
    => LET f == resp.req.filter
           M == {r \in songs : FilterMatches(r, f)}
           off == (f.Page - 1) * f.PageSize
           L == resp.list
       IN  /\ ~IsErr(resp.err)
           /\ (f.Group = <<>> /\ f.SongName = <<>>) => M = songs
           /\ Len(L) = Max(0, Min(f.PageSize, Cardinality(M) - off))
           /\ \A i \in 1..Len(L) :
                /\ L[i] \in M
                /\ Cardinality({r \in M : r.ID > L[i].ID}) = off + i - 1

C8_Witness ==
  /\ resp.op = "service.GetSongs"
  /\ resp.req.filter = [Group |-> <<>>, SongName |-> <<>>, Page |-> 2,
                        PageSize |-> 2]
  /\ Cardinality(songs) = 3
  /\ Len(resp.list) = 1
  /\ resp.list[1].ID = 1

\* C9: the get-by-id handler, given a well-formed id, answers 200 with the
\* song when it exists, 404 when no row has the id, and 500 when the
\* service fails for another reason (a storage failure)
C9_GetByIdStatus ==
  (resp.op = "GetSongByID" /\ Invoked(resp))
    => LET id == ParseInt(resp.req.idSeg).val
       IN  IF ~resp.req.dbOk
           THEN resp.status = StatusInternalServerError
           ELSE IF HasRow(songs, id)
           THEN resp.status = StatusOK /\ resp.song = RowOf(songs, id)
           ELSE resp.status = StatusNotFound

\* a decimal integer: an optional sign, then one or more digits
Numeric(s) ==
  LET body == IF s # <<>> /\ s[1] \in {"+", "-"} THEN Tail(s) ELSE s
  IN  body # <<>> /\ \A i \in 1..Len(body) : body[i] \in Digits

IdRoutes == {"GetSongByID", "UpdateSong", "DeleteSong", "GetSongVerses"}

\* C10: on each of the four id-based routes a non-numeric id segment is
\* answered with 400, the service is not invoked, and the table and the id
\* sequence are as they were
C10_MalformedIdRejected ==
  [][(resp'.op \in IdRoutes /\ ~Numeric(resp'.req.idSeg))
       => (/\ resp'.status = StatusBadRequest
           /\ ~Invoked(resp')
           /\ songs' = songs
           /\ seq' = seq)]_vars

C10_Witness ==
  /\ resp.op = "UpdateSong"
  /\ resp.req.idSeg = <<"1", "x">>
  /\ resp.req.body.json = "ok"
  /\ resp.status = StatusBadRequest
  /\ HasRow(songs, 1)

\* the id a request's path segment names
PathId(r) == ParseInt(r.req.idSeg).val

\* C11: every stored row has createdAt <= updatedAt, and a row's createdAt
\* never changes after its insert
C11_CreatedBeforeUpdated ==
  [][/\ \A q \in songs' : q.CreatedAt <= q.UpdatedAt
     /\ \A r \in songs, q \in songs' :
          r.ID = q.ID => q.CreatedAt = r.CreatedAt]_vars

\* C12: after a successful Update of an existing id, get-by-id returns the
\* supplied group, song, release date, text and link; the row's id and
\* createdAt are as before, and every other row is unchanged
C12_UpdateWritesFields ==
  [][(resp'.op = "UpdateSong" /\ Invoked(resp') /\ ~IsErr(resp'.err))
       => LET id == PathId(resp')
              got == SvcGetSongByID(songs', id, TRUE)
          IN  /\ HasRow(songs, id)
              /\ ~IsErr(got.err)
              /\ got.song.ID = id
              /\ got.song.Group = resp'.req.body.Group
              /\ got.song.Song = resp'.req.body.Song
              /\ got.song.ReleaseDate = resp'.req.body.ReleaseDate
              /\ got.song.Text = resp'.req.body.Text
              /\ got.song.Link = resp'.req.body.Link
              /\ got.song.CreatedAt = RowOf(songs, id).CreatedAt
              /\ {q \in songs' : q.ID # id} = {r \in songs : r.ID # id}]_vars

C12_Witness ==
  /\ resp.op = "UpdateSong"
  /\ resp.status = StatusOK
  /\ Cardinality(songs) = 2
  /\ RowOf(songs, PathId(resp)).Link = "link-1"
  /\ \E r \in songs : r.ID # PathId(resp) /\ r.Link = ""

\* case-insensitive substring test, written out position by position
ContainsFold(s, sub) ==
  \E i \in 1..(Len(s) - Len(sub) + 1) :
    \A k \in 1..Len(sub) : LowerChar(s[i + k - 1]) = LowerChar(sub[k])

\* C13: List returns a stored row iff its group contains the group filter
\* and its title contains the title filter, ignoring letter case; an empty
\* filter restricts nothing (read on a page wide enough for every row)
C13_FilterIsSubstring ==
  (/\ resp.op = "service.GetSongs"
   /\ resp.req.dbOk
   /\ resp.req.filter.Page = 1
   /\ resp.req.filter.PageSize <= 0)
    => \A r \in songs :
         (\E i \in 1..Len(resp.list) : resp.list[i] = r)
           <=> /\ (resp.req.filter.Group = <<>>
                     \/ ContainsFold(r.Group, resp.req.filter.Group))
               /\ (resp.req.filter.SongName = <<>>
                     \/ ContainsFold(r.Song, resp.req.filter.SongName))

\* C14: update, delete and verses with a well-formed id that matches no
\* stored row answer 500
C14_MissingIdIs500 ==
  [][(/\ resp'.op \in {"UpdateSong", "DeleteSong", "GetSongVerses"}
      /\ Invoked(resp')
      /\ ~HasRow(songs, PathId(resp')))
       => resp'.status = StatusInternalServerError]_vars

C14_Witness ==
  /\ resp.op = "GetSongVerses"
  /\ resp.req.dbOk
  /\ songs # {}
  /\ ~HasRow(songs, PathId(resp))
  /\ resp.err.cause = "not_found"
  /\ resp.status = StatusInternalServerError

\* what the client receives: the status code and the response body
Sent(r) == <<r.status, r.error, r.message, r.id, r.song, r.list, r.verses>>

HandlerOps ==
  {"GetSongs", "GetSongByID", "CreateSong", "UpdateSong", "DeleteSong",
   "GetSongVerses"}

\* the failure class of a failed request: a path id that is no number, a
\* body the handler could not bind, or an error returned by the service
FailureClass(r) ==
  IF r.op \in IdRoutes /\ ~Numeric(r.req.idSeg) THEN "bad_id"
  ELSE IF ~Invoked(r) THEN "bad_body"
  ELSE "service"

\* one fixed failing request of each class: the storage failure stands for
\* the service class
RefRequest(class) ==
  CASE class = "bad_id" -> [Req0 EXCEPT !.idSeg = <<"x">>]
    [] class = "bad_body" ->
         [Req0 EXCEPT !.idSeg = <<"1">>,
                      !.body = [NoBody EXCEPT !.json = "malformed"]]
    [] class = "service" ->
         [Req0 EXCEPT !.idSeg = <<"1">>,
                      !.body = [NoBody EXCEPT !.json = "ok",
                                              !.Group = <<"a">>,
                                              !.Song = <<"B">>],
                      !.lookup = [kind |-> "ok", detail |-> NoDetail],
                      !.dbOk = FALSE]

\* C15: a failing execution of a handler sends the same status and body as
\* any other failing execution of that handler in the same failure class,
\* whatever the internal error was
C15_FixedFailureResponse ==
  (resp.op \in HandlerOps /\ resp.status >= StatusBadRequest)
    => LET ref == HandleOp(resp.op, {}, 0, 0,
                           RefRequest(FailureClass(resp))).resp
       IN  /\ ref.status >= StatusBadRequest
           /\ FailureClass(ref) = FailureClass(resp)
           /\ Sent(resp) = Sent(ref)

C15_Witness ==
  /\ resp.op = "UpdateSong"
  /\ resp.err.cause = "unique_violation"
  /\ resp.status = StatusInternalServerError
  /\ resp.error = "error updating song"

\* C18: an Update that would give one stored row the (group, song) pair
\* another stored row holds fails and leaves the table, the target row's
\* updatedAt included, as it was
C18_UpdateToTakenPairFails ==
  [][(/\ resp'.op = "UpdateSong"
      /\ Invoked(resp')
      /\ HasRow(songs, PathId(resp'))
      /\ \E q \in songs : /\ q.ID # PathId(resp')
                          /\ q.Group = resp'.req.body.Group
                          /\ q.Song = resp'.req.body.Song)
       => /\ IsErr(resp'.err)
          /\ resp'.status = StatusInternalServerError
          /\ songs' = songs]_vars

C18_Witness ==
  /\ resp.op = "UpdateSong"
  /\ resp.req.dbOk
  /\ resp.err.cause = "unique_violation"
  /\ now = 1
  /\ Cardinality(songs) = 2
  /\ \A r \in songs : r.UpdatedAt = 0

\* the results of GetSongVerses for pages from..to of one song, in order
RECURSIVE PagesConcat(_, _, _, _, _)
PagesConcat(tbl, id, pageSize, from, to) ==
  IF from > to THEN <<>>
  ELSE SvcGetSongVerses(tbl, id, [Page |-> from, PageSize |-> pageSize],
                        TRUE).verses
         \o PagesConcat(tbl, id, pageSize, from + 1, to)

\* C19: for an existing song with n verses and a page size >= 1, the pages
\* 1..ceil(n/pageSize) concatenated are the verse list, every later page is
\* empty, and the page just read is the page of that number
C19_PagesPartitionVerses ==
  (/\ resp.op = "service.GetSongVerses"
   /\ resp.req.dbOk
   /\ resp.req.pagination.Page >= 1
   /\ resp.req.pagination.PageSize >= 1
   /\ HasRow(songs, resp.req.id))
    => LET id == resp.req.id
           ps == resp.req.pagination.PageSize
           v == Split(RowOf(songs, id).Text, <<NL, NL>>)
           last == (Len(v) + ps - 1) \div ps
       IN  /\ PagesConcat(songs, id, ps, 1, last) = v
           /\ \A k \in (last + 1)..(last + MaxPage) :
                PagesConcat(songs, id, ps, k, k) = <<>>
           /\ resp.verses = PagesConcat(songs, id, ps,
                                        resp.req.pagination.Page,
                                        resp.req.pagination.Page)

C19_Witness ==
  /\ resp.op = "service.GetSongVerses"
  /\ resp.req.dbOk
  /\ HasRow(songs, resp.req.id)
  /\ RowOf(songs, resp.req.id).Text = ThreeVerses
  /\ resp.req.pagination = [Page |-> 3, PageSize |-> 2]
  /\ resp.verses = <<>>
  /\ ~IsErr(resp.err)

\* C20: page 1 of an existing song with any page size >= 1 has at least one
\* verse; a song whose text is empty has the one verse ""
C20_FirstPageNotEmpty ==
  (/\ resp.op = "service.GetSongVerses"
   /\ resp.req.dbOk
   /\ resp.req.pagination.Page = 1
   /\ resp.req.pagination.PageSize >= 1
   /\ HasRow(songs, resp.req.id))
    => /\ ~IsErr(resp.err)
       /\ Len(resp.verses) >= 1
       /\ RowOf(songs, resp.req.id).Text = <<>> => resp.verses = << <<>> >>

C20_Witness ==
  /\ resp.op = "service.GetSongVerses"
  /\ resp.req.dbOk
  /\ resp.req.pagination = [Page |-> 1, PageSize |-> 3]
  /\ HasRow(songs, resp.req.id)
  /\ RowOf(songs, resp.req.id).Text = <<>>
  /\ resp.verses = << <<>> >>

\* the concurrent requests that ask for the pair (g, s)
SamePair(g, s) ==
  {p \in Requests : /\ inflight[p].kind = "create"
                    /\ inflight[p].input = [Group |-> g, Song |-> s]}

Succeeded(p) == inflight[p].pc = "done" /\ ~IsErr(inflight[p].err)

\* C16: of the concurrent CreateSong requests for one (group, song) pair
\* (no other writer running) at most one succeeds and at most one row with
\* the pair is stored, under every interleaving of their lookup, clock and
\* insert steps; once all have returned, if one of them met no lookup or
\* storage fault, exactly one has succeeded and exactly one row with the pair
\* exists, under the id returned
C16_OneCreateWins ==
  (\A q \in Requests : inflight[q].kind = "create")
    => \A g \in Groups, s \in ConcTitles :
         LET won == {p \in SamePair(g, s) : Succeeded(p)}
             rows == {r \in songs : r.Group = g /\ r.Song = s}
         IN  /\ Cardinality(won) <= 1
             /\ Cardinality(rows) <= 1
             /\ (/\ \A p \in SamePair(g, s) : inflight[p].pc = "done"
                 /\ \E p \in SamePair(g, s) :
                      inflight[p].lookup.kind = "ok" /\ inflight[p].dbOk)
                  => /\ Cardinality(won) = 1
                     /\ Cardinality(rows) = 1
                     /\ \A p \in won : \A r \in rows : r.ID = inflight[p].id

C16_Witness ==
  /\ DOMAIN inflight = Requests
  /\ inflight[1].input = inflight[2].input
  /\ \A p \in {1, 2} : /\ inflight[p].kind = "create"
                      /\ inflight[p].pc = "done"
                      /\ inflight[p].lookup.kind = "ok"
                      /\ inflight[p].dbOk
  /\ Succeeded(2)
  /\ inflight[1].err.cause = "unique_violation"
  /\ Cardinality(songs) = 1

\* C17: for an existing song and every page >= 1 and page size >= 1 in the
\* int range, start = (page-1)*pageSize and end = start + pageSize are not
\* negative, and the request is answered 200 with a sub-sequence of the
\* verses
C17_NoNegativeSliceBound ==
  LET id == ParseInt(resp.req.idSeg)
      page == Atoi64(resp.req.query.page)
      pageSize == Atoi64(resp.req.query.page_size)
      start == Mul64(Sub64(page.val, One64), pageSize.val)
      end == Add64(start, pageSize.val)
      verses == Split(RowOf(songs, id.val).Text, <<NL, NL>>)
  IN  (/\ resp.op = "GetSongVerses"
       /\ resp.req.dbOk
       /\ id.ok /\ HasRow(songs, id.val)
       /\ page.ok /\ Less64(Zero64, page.val)
       /\ pageSize.ok /\ Less64(Zero64, pageSize.val))
        => /\ ~IsNeg64(start)
           /\ ~IsNeg64(end)
           /\ resp.status = StatusOK
           /\ \E i \in 1..(Len(verses) + 1), j \in 0..Len(verses) :
                resp.verses = SubSeq(verses, i, j)

====
